---- MODULE Spec2Model ----
(***************************************************************************)
(* Santa decision-log scraper of fleet-extensions (src/santa):             *)
(* the ring buffer (ringbuffer.go), the line extractor, stream scraper and *)
(* segment orchestrator (santa_log.go) and the santa_allowed/santa_denied  *)
(* table callbacks (main.go).                                              *)
(*                                                                         *)
(* Go strings are modelled as TLA+ strings (ASCII only); a Go map is a     *)
(* function whose DOMAIN is the set of keys present; a nil slice and an    *)
(* empty slice are both the empty sequence.                                *)
(***************************************************************************)
EXTENDS Integers, Sequences, FiniteSets, TLC

\* ------------------------------------------------------------------------
\* Bounds of the model
\* ------------------------------------------------------------------------

\* archive indices that may exist on disk are 0 .. MaxArch-1
MaxArch == 2

\* largest ring buffer capacity tried (maxEntries is a package variable)
MaxCap == 2

\* largest number of Add calls in the ring buffer specification
MaxAdds == 5

\* longest line source given to scrapeStream alone
MaxLines == 2

\* ------------------------------------------------------------------------
\* Program constants
\* ------------------------------------------------------------------------

kLogEntryPreface == "santad: "

DecisionAllowed == 0

DecisionDenied == 1

\* ------------------------------------------------------------------------
\* Go's strings package, as far as santa_log.go uses it
\* ------------------------------------------------------------------------

CharAt(s, i) == SubSeq(s, i, i)

\* strings.Index: 0-based index of the first occurrence of sub in s, or -1
Index(s, sub) ==
    LET hits == {k \in 0..(Len(s) - Len(sub)) : SubSeq(s, k + 1, k + Len(sub)) = sub}
    IN  IF hits = {} THEN -1 ELSE CHOOSE a \in hits : \A b \in hits : a <= b

Contains(s, sub) == Index(s, sub) # -1

\* the vertical tab, the character 0x0B
VerticalTab == ""

\* the ASCII characters unicode.IsSpace accepts, which strings.TrimSpace removes
WhiteSpace == {" ", "\t", "\n", VerticalTab, "\f", "\r"}

\* strings.Trim(s, cutset): drops every leading and every trailing character
\* that belongs to cutset
TrimSet(s, cutset) ==
    LET keep == {k \in 1..Len(s) : CharAt(s, k) \notin cutset}
    IN  IF keep = {} THEN ""
        ELSE SubSeq(s, CHOOSE a \in keep : \A b \in keep : a <= b,
                       CHOOSE a \in keep : \A b \in keep : a >= b)

TrimSpace(s) == TrimSet(s, WhiteSpace)

\* strings.Cut(s, sep) for a one-character separator
Cut(s, sep) ==
    LET p == Index(s, sep)
    IN  IF p = -1 THEN [before |-> s, after |-> "", found |-> FALSE]
        ELSE [before |-> SubSeq(s, 1, p),
              after  |-> SubSeq(s, p + 2, Len(s)),
              found  |-> TRUE]

\* strings.Split(s, sep) for a one-character separator
RECURSIVE Split(_, _)
Split(s, sep) ==
    LET p == Index(s, sep)
    IN  IF p = -1 THEN <<s>>
        ELSE <<SubSeq(s, 1, p)>> \o Split(SubSeq(s, p + 2, Len(s)), sep)

UpperLetters == "ABCDEFGHIJKLMNOPQRSTUVWXYZ"

LowerLetters == "abcdefghijklmnopqrstuvwxyz"

ToLowerChar(c) ==
    LET p == Index(UpperLetters, c)
    IN  IF p # -1 THEN CharAt(LowerLetters, p + 1) ELSE c

RECURSIVE ToLower(_)
ToLower(s) ==
    IF s = "" THEN ""
    ELSE ToLowerChar(CharAt(s, 1)) \o ToLower(SubSeq(s, 2, Len(s)))

\* ------------------------------------------------------------------------
\* santa_log.go: line extractor
\* ------------------------------------------------------------------------

\* timestampRegex = `\[([^\]]+)\]` with FindStringSubmatch: the leftmost "["
\* that is followed by one or more characters other than "]" and then "]".
\* found = (len(m) > 1), group = m[1].
timestampRegex(line) ==
    LET starts == {i \in 1..Len(line) :
                      /\ CharAt(line, i) = "["
                      /\ i + 1 <= Len(line)
                      /\ CharAt(line, i + 1) # "]"
                      /\ \E j \in (i + 2)..Len(line) : CharAt(line, j) = "]"}
    IN  IF starts = {} THEN [found |-> FALSE, group |-> ""]
        ELSE LET i == CHOOSE a \in starts : \A b \in starts : a <= b
                 j == CHOOSE a \in (i + 2)..Len(line) :
                          /\ CharAt(line, a) = "]"
                          /\ \A b \in (i + 2)..(a - 1) : CharAt(line, b) # "]"
             IN  [found |-> TRUE, group |-> SubSeq(line, i + 1, j - 1)]

\* values[k] = v
MapPut(values, k, v) ==
    [x \in (DOMAIN values) \cup {k} |-> IF x = k THEN v ELSE values[x]]

\* values[k] of a Go map: the empty string when the key is absent
MapGet(values, k) == IF k \in DOMAIN values THEN values[k] ELSE ""

EmptyMap == [x \in {} |-> ""]

\* a loop body that takes off one layer of matching quotes only
ParseSegment_UnquoteOne(values, rawSeg) ==
    LET seg == TrimSpace(rawSeg)
        c   == Cut(seg, "=")
        k   == ToLower(TrimSpace(c.before))
        t   == TrimSpace(c.after)
        v   == IF /\ Len(t) >= 2
                  /\ CharAt(t, 1) \in {"\"", "'"}
                  /\ CharAt(t, Len(t)) = CharAt(t, 1)
               THEN SubSeq(t, 2, Len(t) - 1)
               ELSE t
    IN  IF seg = "" THEN values
        ELSE IF ~c.found THEN values
        ELSE IF k # "" /\ v # "" THEN MapPut(values, k, v)
        ELSE values

\* a loop body that keeps the case of the key
ParseSegment_KeepCase(values, rawSeg) ==
    LET seg == TrimSpace(rawSeg)
        c   == Cut(seg, "=")
        k   == TrimSpace(c.before)
        v   == TrimSet(TrimSpace(c.after), {"\"", "'"})
    IN  IF seg = "" THEN values
        ELSE IF ~c.found THEN values
        ELSE IF k # "" /\ v # "" THEN MapPut(values, k, v)
        ELSE values

\* the body of the loop over the segments (santa_log.go:40-54)
ParseSegment(values, rawSeg) ==
    LET seg == TrimSpace(rawSeg)
        c   == Cut(seg, "=")
        k   == ToLower(TrimSpace(c.before))
        v   == TrimSet(TrimSpace(c.after), {"\"", "'"})
    IN  IF seg = "" THEN values
        ELSE IF ~c.found THEN values
        ELSE IF k # "" /\ v # "" THEN MapPut(values, k, v)
        ELSE values

RECURSIVE ParseSegments(_, _)
ParseSegments(values, segs) ==
    IF segs = <<>> THEN values
    ELSE ParseSegments(ParseSegment(values, Head(segs)), Tail(segs))

\* an extractor that parses the whole line when the marker is missing
extractValues_IgnoreMarker(line) ==
    LET m      == timestampRegex(line)
        values == IF m.found THEN MapPut(EmptyMap, "timestamp", m.group)
                  ELSE EmptyMap
        pos    == Index(line, kLogEntryPreface)
    IN  IF pos = -1 THEN ParseSegments(values, Split(line, "|"))
        ELSE ParseSegments(values,
                 Split(SubSeq(line, pos + Len(kLogEntryPreface) + 1, Len(line)), "|"))

extractValues(line) ==
    LET m      == timestampRegex(line)
        values == IF m.found THEN MapPut(EmptyMap, "timestamp", m.group)
                  ELSE EmptyMap
        pos    == Index(line, kLogEntryPreface)
    IN  IF pos = -1 THEN values
        ELSE ParseSegments(values,
                 Split(SubSeq(line, pos + Len(kLogEntryPreface) + 1, Len(line)), "|"))

\* ------------------------------------------------------------------------
\* santa.go: LogEntry; ringbuffer.go: ringBuffer
\* ------------------------------------------------------------------------

LogEntry(ts, app, reason, sha) ==
    [Timestamp |-> ts, Application |-> app, Reason |-> reason, SHA256 |-> sha]

ZeroEntry == LogEntry("", "", "", "")

\* slot k of the Go slice is buf[k + 1]
newRingBuffer(n) ==
    [buf |-> [k \in 1..n |-> ZeroEntry], start |-> 0, size |-> 0]

\* Add without the guard of capacity 0, counting the entry
Add_NoZeroGuard(r, e) ==
    IF Len(r.buf) = 0 THEN [r EXCEPT !.size = r.size + 1]
    ELSE IF r.size < Len(r.buf)
         THEN [r EXCEPT !.buf[((r.start + r.size) % Len(r.buf)) + 1] = e,
                        !.size = r.size + 1]
         ELSE [r EXCEPT !.buf[r.start + 1] = e,
                        !.start = (r.start + 1) % Len(r.buf)]

\* Add that advances start without the modulo
Add_AdvanceNoWrap(r, e) ==
    IF Len(r.buf) = 0 THEN r
    ELSE IF r.size < Len(r.buf)
         THEN [r EXCEPT !.buf[((r.start + r.size) % Len(r.buf)) + 1] = e,
                        !.size = r.size + 1]
         ELSE [r EXCEPT !.buf[(r.start % Len(r.buf)) + 1] = e,
                        !.start = r.start + 1]

\* Add that forgets to advance start on a full buffer
Add_NoAdvance(r, e) ==
    IF Len(r.buf) = 0 THEN r
    ELSE IF r.size < Len(r.buf)
         THEN [r EXCEPT !.buf[((r.start + r.size) % Len(r.buf)) + 1] = e,
                        !.size = r.size + 1]
         ELSE [r EXCEPT !.buf[r.start + 1] = e]

Add(r, e) ==
    IF Len(r.buf) = 0 THEN r
    ELSE IF r.size < Len(r.buf)
         THEN [r EXCEPT !.buf[((r.start + r.size) % Len(r.buf)) + 1] = e,
                        !.size = r.size + 1]
         ELSE [r EXCEPT !.buf[r.start + 1] = e,
                        !.start = (r.start + 1) % Len(r.buf)]

RbLen(r) == r.size

\* SliceChrono that copies the slots from 0 and ignores start
SliceChrono_NoWrap(r) == [k \in 1..r.size |-> r.buf[k]]

SliceChrono(r) ==
    [k \in 1..r.size |-> r.buf[((r.start + (k - 1)) % Len(r.buf)) + 1]]


\* ------------------------------------------------------------------------
\* santa_log.go: stream scraper, one line (santa_log.go:68-92)
\* ------------------------------------------------------------------------

\* a filter that lets every line through
passesFilter_Any(d, line) == TRUE

\* the decision filter of lines 71-80
passesFilter(d, line) ==
    IF d = DecisionAllowed THEN Contains(line, "decision=ALLOW")
    ELSE IF d = DecisionDenied THEN Contains(line, "decision=DENY")
    ELSE TRUE

\* the LogEntry built at lines 87-92
entryOf(values) ==
    LogEntry(MapGet(values, "timestamp"), MapGet(values, "path"),
             MapGet(values, "reason"), MapGet(values, "sha256"))

\* a loop body without the timestamp check of lines 83-85
lineEntries_KeepMalformed(d, line) ==
    IF ~passesFilter(d, line) THEN <<>>
    ELSE <<entryOf(extractValues(line))>>

\* the entry the loop body gives to rb.Add for one line: <<e>>, or <<>> when
\* the line is skipped by one of the two continue statements (lines 70-92)
lineEntries(d, line) ==
    IF ~passesFilter(d, line) THEN <<>>
    ELSE LET values == extractValues(line)
         IN  IF MapGet(values, "timestamp") = "" THEN <<>>
             ELSE <<entryOf(values)>>

\* TRUE when the line reaches rb.Add
inserts(d, line) == lineEntries(d, line) # <<>>

\* the ring buffer after the loop body has handled one line
scrapeLine(d, line, r) ==
    LET es == lineEntries(d, line)
    IN  IF es = <<>> THEN r ELSE Add(r, es[1])

\* scrapeStream without the cancellation check
ctxSelect_Never(done) == FALSE

\* select { case <-ctx.Done(): ...; default: } (lines 62-66): TRUE when the
\* case <-ctx.Done() is taken
ctxSelect(done) == done

\* a cancelled scrapeStream that leaves the loop and reports no error
ctxErr_Nil(done) == "nil"

\* ctx.Err() (line 64)
ctxErr(done) == IF done THEN "context canceled" ELSE "nil"

\* ------------------------------------------------------------------------
\* The files on disk
\* ------------------------------------------------------------------------

LineA1 == "[t1] santad: decision=ALLOW|reason=CERT|sha256=ab|path=/a"

LineA2 == "[t2] santad: decision=ALLOW|path=/b"

LineA3 == "[t3] santad: decision=ALLOW|path=/c"

LineD1 == "[t4] santad: decision=DENY|path=/d"

LineD2 == "[t5] santad: decision=DENY|sha256=cd|path=/e"

\* passes the Allowed filter but has no timestamp
LineM == "santad: decision=ALLOW|path=/m"

\* contents of a segment, as the lines bufio.Scanner yields
FilePool == {<<>>, <<LineA1, LineD1, LineA2>>, <<LineD2, LineM, LineA3>>}

\* kind: "missing"  no such file (os.Stat and os.Open fail)
\*       "noopen"   os.Stat succeeds, os.Open fails
\*       "badgzip"  os.Open succeeds, gzip.NewReader fails
\*       "ok"       the lines are read, then a clean end of file
\*       "readerr"  the lines are read, then scanner.Err() is not nil (a
\*                  corrupt gzip stream, an I/O error, a line over the
\*                  scanner's token limit)
Segment(kind, lines) == [kind |-> kind, lines |-> lines]

\* a read error after three lines (an archive corrupt in its middle)
ArchPool ==
    {Segment(k, <<>>) : k \in {"missing", "noopen", "badgzip"}}
        \cup {Segment("ok", ls) : ls \in FilePool}
        \cup {Segment("readerr", <<LineA1, LineD1, LineA2>>)}

CurPool ==
    {Segment("missing", <<>>)}
        \cup {Segment("ok", ls) : ls \in FilePool}
        \cup {Segment("readerr", <<LineD2, LineM, LineA3>>)}

\* fmt.Sprintf("%s.%d.gz", path, i) and path itself
archivePath(n) == [gz |-> TRUE, idx |-> n]

logPath == [gz |-> FALSE, idx |-> 0]

\* ------------------------------------------------------------------------
\* State
\* ------------------------------------------------------------------------

VARIABLES
    fs,          \* [arch |-> [0..MaxArch-1 -> Segment], cur |-> Segment]
    maxEntries,  \* the package variable maxEntries
    ctxDone,     \* TRUE once ctx.Done() is closed
    pc,          \* position of the running call
    decision,    \* the decision argument of the scrape
    i,           \* loop variable i of scrapeSantaLogFromBase
    maxIdx,      \* local maxIdx of scrapeSantaLogFromBase
    rb,          \* the ring buffer of the call
    scanner,     \* the open line source: [path, lines, readErr, pos]
    err,         \* error returned by scrapeStream / scrapeCompressedSantaLog / scrapeCurrentLog
    ret,         \* ([]LogEntry, error) returned by scrapeSantaLogFromBase
    out,         \* ([]map[string]string, error) returned by the table callback
    probed,      \* history: archive indices passed to os.Stat, in order
    opened,      \* history: paths passed to os.Open, in order
    eofSeen,     \* history: paths whose stream was read to a clean end
    addedFrom,   \* history: the entries given to rb.Add, each with the path read
    cancelAt,    \* history: where the call stood when ctx was cancelled
    exParts,     \* history: the pieces the line given to extractValues was built from
    exLine,      \* the argument line of a call of extractValues alone
    exValues,    \* the map that call returned
    exEntry,     \* the LogEntry built from that map
    lenRead,     \* the result of the last r.Len() call, -1 before the first
    held,        \* the slice the last r.SliceChrono() call returned, as its caller holds it
    heldAtCall,  \* history: the contents of that slice when it was returned
    lastOp,      \* history: the last method called on the ring buffer
    typeInt,     \* the argument of a call of getRuleTypeFromInt
    ruleType,    \* the RuleType that call returned
    calls,       \* the locals of two concurrent scrapeSantaLogFromBase calls
    heap,        \* the ring buffers those calls allocated, by address
    history,     \* history: the lines of the logical log, oldest first
    rotated      \* history: number of log rotations so far

\* the variables of a scrape
scrapeVars == <<fs, maxEntries, ctxDone, decision, i, maxIdx, rb, scanner, err,
                ret, out, probed, opened, eofSeen, addedFrom, cancelAt>>

\* the variables of a call of extractValues alone
exVars == <<exParts, exLine, exValues, exEntry>>

\* the variables of the ring buffer's readers
rbReadVars == <<lenRead, held, heldAtCall, lastOp>>

\* the variables of the rule type conversion, of two concurrent calls and of
\* log rotation
auxVars == <<typeInt, ruleType, calls, heap, history, rotated>>

vars == <<fs, maxEntries, ctxDone, pc, decision, i, maxIdx, rb, scanner, err,
          ret, out, probed, opened, eofSeen, addedFrom, cancelAt,
          exParts, exLine, exValues, exEntry,
          lenRead, held, heldAtCall, lastOp,
          typeInt, ruleType, calls, heap, history, rotated>>

NoScanner == [path |-> logPath, lines |-> <<>>, readErr |-> FALSE, pos |-> 0]

NotCancelled == [pc |-> "never", opened |-> 0, unread |-> 0]

NoRet == [entries |-> <<>>, err |-> "nil"]

NoOut == [rows |-> <<>>, err |-> "nil"]

NoParts == [kind |-> "none", pre |-> "", marker |-> "", segs |-> <<>>,
            T |-> "", R |-> "", S |-> "", P |-> ""]

\* no slice held by a caller
NoHeld == [alias |-> FALSE, data |-> <<>>]

\* no RuleType returned yet
NoRuleType == -1

\* no concurrent calls
NoCalls == <<>>

\* no ring buffer allocated
NoHeap == <<>>

ErrCanceled == "context canceled"

ErrOpen == "failed to open"

ErrGzip == "failed to create gzip reader"

ErrRead == "read error"

\* ------------------------------------------------------------------------
\* main.go: table callbacks
\* ------------------------------------------------------------------------

rowOf(e) ==
    [timestamp |-> e.Timestamp, application |-> e.Application,
     reason |-> e.Reason, sha256 |-> e.SHA256]

\* a callback that hands the scrape's error to osquery
tableResult_Propagate(r) ==
    IF r.err # "nil" THEN [rows |-> <<>>, err |-> r.err]
    ELSE [rows |-> [k \in 1..Len(r.entries) |-> rowOf(r.entries[k])], err |-> "nil"]

\* lines 108-124 / 129-145: what the callback returns for the scrape's return
tableResult(r) ==
    IF r.err # "nil" THEN [rows |-> <<>>, err |-> "nil"]
    ELSE [rows |-> [k \in 1..Len(r.entries) |-> rowOf(r.entries[k])], err |-> "nil"]

tableDecision(t) == IF t = "santa_allowed" THEN DecisionAllowed ELSE DecisionDenied

\* generateSantaAllowed / generateSantaDenied call scrapeSantaLog, which calls
\* scrapeSantaLogFromBase: rb := newRingBuffer(maxEntries); maxIdx := -1; i := 0
generateSanta(t) ==
    /\ pc = "idle"
    /\ pc' = "probe"
    /\ decision' = tableDecision(t)
    /\ rb' = newRingBuffer(maxEntries)
    /\ maxIdx' = -1
    /\ i' = 0
    /\ UNCHANGED <<fs, maxEntries, ctxDone, scanner, err, ret, out, probed,
                   opened, eofSeen, addedFrom, cancelAt>>
    /\ UNCHANGED exVars
    /\ UNCHANGED rbReadVars
    /\ UNCHANGED auxVars

\* the callback returns (lines 109-124 / 130-145)
generateReturn ==
    /\ pc = "return"
    /\ pc' = "done"
    /\ out' = tableResult(ret)
    /\ UNCHANGED <<fs, maxEntries, ctxDone, decision, i, maxIdx, rb, scanner,
                   err, ret, probed, opened, eofSeen, addedFrom, cancelAt>>
    /\ UNCHANGED exVars
    /\ UNCHANGED rbReadVars
    /\ UNCHANGED auxVars

\* ------------------------------------------------------------------------
\* santa_log.go: segment orchestrator
\* ------------------------------------------------------------------------

\* os.Stat(fmt.Sprintf("%s.%d.gz", path, n)) returns no error
statOk(f, n) == n \in DOMAIN f.arch /\ f.arch[n].kind # "missing"

\* a discovery that does not stop at the first missing index
probeArchive_PastGap ==
    /\ pc = "probe"
    /\ probed' = Append(probed, i)
    /\ maxIdx' = IF statOk(fs, i) THEN i ELSE maxIdx
    /\ IF i + 1 \in DOMAIN fs.arch
       THEN /\ i' = i + 1
            /\ pc' = pc
       ELSE /\ i' = maxIdx'
            /\ pc' = "archives"
    /\ UNCHANGED <<fs, maxEntries, ctxDone, decision, rb, scanner, err, ret,
                   out, opened, eofSeen, addedFrom, cancelAt>>
    /\ UNCHANGED exVars
    /\ UNCHANGED rbReadVars
    /\ UNCHANGED auxVars

\* one iteration of the discovery loop (lines 143-148)
probeArchive ==
    /\ pc = "probe"
    /\ probed' = Append(probed, i)
    /\ IF statOk(fs, i)
       THEN /\ maxIdx' = i
            /\ i' = i + 1
            /\ pc' = pc
       ELSE /\ maxIdx' = maxIdx
            /\ i' = maxIdx
            /\ pc' = "archives"
    /\ UNCHANGED <<fs, maxEntries, ctxDone, decision, rb, scanner, err, ret,
                   out, opened, eofSeen, addedFrom, cancelAt>>
    /\ UNCHANGED exVars
    /\ UNCHANGED rbReadVars
    /\ UNCHANGED auxVars

\* an archive open whose failure is reported with the context's error value
openArchiveErr_AsCanceled(seg) ==
    IF seg.kind \in {"missing", "noopen"} THEN ErrCanceled
    ELSE IF seg.kind = "badgzip" THEN ErrCanceled
    ELSE "nil"

\* the error of os.Open / gzip.NewReader in scrapeCompressedSantaLog (lines 112-121)
openArchiveErr(seg) ==
    IF seg.kind \in {"missing", "noopen"} THEN ErrOpen
    ELSE IF seg.kind = "badgzip" THEN ErrGzip
    ELSE "nil"

\* the error of os.Open in scrapeCurrentLog (lines 100-103)
openCurrentErr(seg) ==
    IF seg.kind \in {"missing", "noopen"} THEN ErrOpen ELSE "nil"

newScanner(p, seg) ==
    [path |-> p, lines |-> seg.lines, readErr |-> (seg.kind = "readerr"), pos |-> 0]

\* i-- of the archive loop (line 151)
nextArchive(n) == n - 1

\* an archive loop that stops before archive 0
archiveLoopCond_SkipZero(n) == n > 0

\* i >= 0 of the archive loop (line 151)
archiveLoopCond(n) == n >= 0

\* the loop condition i >= 0 and the call of scrapeCompressedSantaLog up to
\* the creation of the scanner (lines 151-153, 111-124); after the loop the
\* call of scrapeCurrentLog up to the creation of the scanner (lines 159, 99-106)
openSegment ==
    /\ pc = "archives"
    /\ LET p   == IF archiveLoopCond(i) THEN archivePath(i) ELSE logPath
           seg == IF archiveLoopCond(i) THEN fs.arch[i] ELSE fs.cur
           e   == IF archiveLoopCond(i) THEN openArchiveErr(seg)
                  ELSE openCurrentErr(seg)
       IN  /\ opened' = Append(opened, p)
           /\ scanner' = IF e = "nil" THEN newScanner(p, seg)
                         ELSE [NoScanner EXCEPT !.path = p]
           /\ err' = e
           /\ pc' = IF e = "nil" THEN "scan" ELSE "streamret"
    /\ UNCHANGED <<fs, maxEntries, ctxDone, decision, i, maxIdx, rb, ret, out,
                   probed, eofSeen, addedFrom, cancelAt>>
    /\ UNCHANGED exVars
    /\ UNCHANGED rbReadVars
    /\ UNCHANGED auxVars

\* a scanner that hides the read error of its source
scannerErr_Nil(sc) == "nil"

\* scanner.Err() after scanner.Scan() returned false (line 95): nil at the
\* end of the source, else the read error of the source
scannerErr(sc) == IF sc.readErr THEN ErrRead ELSE "nil"

\* a loop that handles the line first and checks the signal afterwards
scrapeStream_CheckAfter ==
    /\ pc = "scan"
    /\ IF scanner.pos < Len(scanner.lines)
       THEN LET line == scanner.lines[scanner.pos + 1]
            IN  /\ scanner' = [scanner EXCEPT !.pos = scanner.pos + 1]
                /\ rb' = scrapeLine(decision, line, rb)
                /\ addedFrom' =
                      LET es == lineEntries(decision, line)
                      IN  IF es = <<>> THEN addedFrom
                          ELSE Append(addedFrom,
                                      [path |-> scanner.path, entry |-> es[1]])
                /\ IF ctxSelect(ctxDone)
                   THEN /\ err' = ctxErr(ctxDone)
                        /\ pc' = "streamret"
                   ELSE UNCHANGED <<err, pc>>
                /\ UNCHANGED eofSeen
       ELSE /\ err' = scannerErr(scanner)
            /\ eofSeen' = IF scanner.readErr THEN eofSeen
                          ELSE eofSeen \cup {scanner.path}
            /\ pc' = "streamret"
            /\ UNCHANGED <<scanner, rb, addedFrom>>
    /\ UNCHANGED <<fs, maxEntries, ctxDone, decision, i, maxIdx, ret, out,
                   probed, opened, cancelAt>>
    /\ UNCHANGED exVars
    /\ UNCHANGED rbReadVars
    /\ UNCHANGED auxVars

\* one iteration of the loop of scrapeStream, or its return (lines 61-95)
scrapeStream ==
    /\ pc = "scan"
    /\ IF scanner.pos < Len(scanner.lines)
       THEN LET line == scanner.lines[scanner.pos + 1]
            IN  /\ scanner' = [scanner EXCEPT !.pos = scanner.pos + 1]
                /\ IF ctxSelect(ctxDone)
                   THEN /\ err' = ctxErr(ctxDone)
                        /\ pc' = "streamret"
                        /\ UNCHANGED <<rb, addedFrom>>
                   ELSE /\ rb' = scrapeLine(decision, line, rb)
                        /\ addedFrom' =
                              LET es == lineEntries(decision, line)
                              IN  IF es = <<>> THEN addedFrom
                                  ELSE Append(addedFrom,
                                              [path |-> scanner.path,
                                               entry |-> es[1]])
                        /\ UNCHANGED <<err, pc>>
                /\ UNCHANGED eofSeen
       ELSE /\ err' = scannerErr(scanner)
            /\ eofSeen' = IF scanner.readErr THEN eofSeen
                          ELSE eofSeen \cup {scanner.path}
            /\ pc' = "streamret"
            /\ UNCHANGED <<scanner, rb, addedFrom>>
    /\ UNCHANGED <<fs, maxEntries, ctxDone, decision, i, maxIdx, ret, out,
                   probed, opened, cancelAt>>
    /\ UNCHANGED exVars
    /\ UNCHANGED rbReadVars
    /\ UNCHANGED auxVars

\* an orchestrator that goes on to the next segment whatever the archive's scrape returned
archiveFailed_Never(e) == FALSE

\* if err := scrapeCompressedSantaLog(...); err != nil (line 153)
archiveFailed(e) == e # "nil"

\* an orchestrator that ignores the error of the current log's scrape
currentFailed_Never(e) == FALSE

\* if err := scrapeCurrentLog(...); err != nil (line 159)
currentFailed(e) == e # "nil"

\* the orchestrator after a segment's scrape has returned (lines 153-164)
segmentReturn ==
    /\ pc = "streamret"
    /\ IF scanner.path.gz
       THEN IF archiveFailed(err)
            THEN /\ ret' = [entries |-> <<>>, err |-> err]
                 /\ pc' = "return"
                 /\ i' = i
            ELSE /\ ret' = ret
                 /\ pc' = "archives"
                 /\ i' = nextArchive(i)
       ELSE /\ i' = i
            /\ pc' = "return"
            /\ ret' = IF currentFailed(err)
                      THEN [entries |-> <<>>, err |-> err]
                      ELSE [entries |-> SliceChrono(rb), err |-> "nil"]
    /\ UNCHANGED <<fs, maxEntries, ctxDone, decision, maxIdx, rb, scanner, err,
                   out, probed, opened, eofSeen, addedFrom, cancelAt>>
    /\ UNCHANGED exVars
    /\ UNCHANGED rbReadVars
    /\ UNCHANGED auxVars

\* the caller's context is cancelled (deadline or shutdown), at any moment
cancel ==
    /\ ~ctxDone
    /\ pc \in {"idle", "probe", "archives", "scan", "streamret", "return"}
    /\ ctxDone' = TRUE
    /\ cancelAt' = [pc |-> IF pc = "scan" THEN "scan" ELSE "other",
                    opened |-> Len(opened),
                    unread |-> IF pc = "scan"
                               THEN Len(scanner.lines) - scanner.pos ELSE 0]
    /\ UNCHANGED <<fs, maxEntries, pc, decision, i, maxIdx, rb, scanner, err,
                   ret, out, probed, opened, eofSeen, addedFrom>>
    /\ UNCHANGED exVars
    /\ UNCHANGED rbReadVars
    /\ UNCHANGED auxVars

Init ==
    /\ fs \in [arch : [0..(MaxArch - 1) -> ArchPool], cur : CurPool]
    /\ maxEntries \in 1..MaxCap
    /\ ctxDone = FALSE
    /\ pc = "idle"
    /\ decision = DecisionAllowed
    /\ i = 0
    /\ maxIdx = -1
    /\ rb = newRingBuffer(0)
    /\ scanner = NoScanner
    /\ err = "nil"
    /\ ret = NoRet
    /\ out = NoOut
    /\ probed = <<>>
    /\ opened = <<>>
    /\ eofSeen = {}
    /\ addedFrom = <<>>
    /\ cancelAt = NotCancelled
    /\ exParts = NoParts
    /\ exLine = ""
    /\ exValues = EmptyMap
    /\ exEntry = ZeroEntry
    /\ lenRead = -1
    /\ held = NoHeld
    /\ heldAtCall = <<>>
    /\ lastOp = "none"
    /\ typeInt = 0
    /\ ruleType = NoRuleType
    /\ calls = NoCalls
    /\ heap = NoHeap
    /\ history = <<>>
    /\ rotated = 0

Next ==
    \/ \E t \in {"santa_allowed", "santa_denied"} : generateSanta(t)
    \/ probeArchive
    \/ openSegment
    \/ scrapeStream
    \/ segmentReturn
    \/ generateReturn
    \/ cancel

Spec == Init /\ [][Next]_vars


\* ------------------------------------------------------------------------
\* The ring buffer alone: any capacity, any sequence of Add calls
\* ------------------------------------------------------------------------

EntryPool ==
    {LogEntry("1", "app1", "", ""), LogEntry("2", "app2", "", ""),
     LogEntry("3", "app3", "", "")}

InitRB ==
    /\ rb \in {newRingBuffer(c) : c \in 0..MaxCap}
    /\ pc = "rb"
    /\ fs = [arch |-> [n \in 0..(MaxArch - 1) |-> Segment("missing", <<>>)],
             cur |-> Segment("missing", <<>>)]
    /\ maxEntries = Len(rb.buf)
    /\ ctxDone = FALSE
    /\ decision = DecisionAllowed
    /\ i = 0
    /\ maxIdx = -1
    /\ scanner = NoScanner
    /\ err = "nil"
    /\ ret = NoRet
    /\ out = NoOut
    /\ probed = <<>>
    /\ opened = <<>>
    /\ eofSeen = {}
    /\ addedFrom = <<>>
    /\ cancelAt = NotCancelled
    /\ exParts = NoParts
    /\ exLine = ""
    /\ exValues = EmptyMap
    /\ exEntry = ZeroEntry
    /\ lenRead = -1
    /\ held = NoHeld
    /\ heldAtCall = <<>>
    /\ lastOp = "none"
    /\ typeInt = 0
    /\ ruleType = NoRuleType
    /\ calls = NoCalls
    /\ heap = NoHeap
    /\ history = <<>>
    /\ rotated = 0

\* r.Add(e)
rbAdd(e) ==
    /\ pc = "rb"
    /\ Len(addedFrom) < MaxAdds
    /\ rb' = Add(rb, e)
    /\ addedFrom' = Append(addedFrom, [path |-> logPath, entry |-> e])
    /\ lastOp' = "Add"
    /\ UNCHANGED <<lenRead, held, heldAtCall>>
    /\ UNCHANGED <<fs, maxEntries, ctxDone, pc, decision, i, maxIdx, scanner,
                   err, ret, out, probed, opened, eofSeen, cancelAt>>
    /\ UNCHANGED exVars
    /\ UNCHANGED auxVars

\* a SliceChrono that returns a slice of the live backing array
makeOut_Alias(r) == [alias |-> TRUE, data |-> SliceChrono(r)]

\* the slice SliceChrono returns: out := make([]LogEntry, r.size), filled
\* by the loop (ringbuffer.go:33-37); alias is TRUE for a slice that shares
\* its backing array with r.buf
makeOut(r) == [alias |-> FALSE, data |-> SliceChrono(r)]

\* what the holder of the slice h reads in it now
sliceContents(h, r) ==
    IF h.alias THEN [k \in 1..Len(h.data) |-> r.buf[k]] ELSE h.data

\* a SliceChrono that empties the buffer it reads
rbSliceChrono_Drain ==
    /\ pc = "rb"
    /\ ret' = [entries |-> SliceChrono(rb), err |-> "nil"]
    /\ held' = makeOut(rb)
    /\ heldAtCall' = SliceChrono(rb)
    /\ lastOp' = "SliceChrono"
    /\ rb' = [rb EXCEPT !.start = 0, !.size = 0]
    /\ UNCHANGED lenRead
    /\ UNCHANGED <<fs, maxEntries, ctxDone, pc, decision, i, maxIdx,
                   scanner, err, out, probed, opened, eofSeen, addedFrom,
                   cancelAt>>
    /\ UNCHANGED exVars
    /\ UNCHANGED auxVars

\* out := r.SliceChrono(), kept by the caller (also in ret.entries)
rbSliceChrono ==
    /\ pc = "rb"
    /\ ret' = [entries |-> SliceChrono(rb), err |-> "nil"]
    /\ held' = makeOut(rb)
    /\ heldAtCall' = SliceChrono(rb)
    /\ lastOp' = "SliceChrono"
    /\ UNCHANGED lenRead
    /\ UNCHANGED <<fs, maxEntries, ctxDone, pc, decision, i, maxIdx, rb,
                   scanner, err, out, probed, opened, eofSeen, addedFrom,
                   cancelAt>>
    /\ UNCHANGED exVars
    /\ UNCHANGED auxVars

\* n := r.Len()
rbLen ==
    /\ pc = "rb"
    /\ lenRead' = RbLen(rb)
    /\ lastOp' = "Len"
    /\ UNCHANGED <<held, heldAtCall>>
    /\ UNCHANGED <<fs, maxEntries, ctxDone, pc, decision, i, maxIdx, rb,
                   scanner, err, ret, out, probed, opened, eofSeen, addedFrom,
                   cancelAt>>
    /\ UNCHANGED exVars
    /\ UNCHANGED auxVars

NextRB ==
    \/ \E e \in EntryPool : rbAdd(e)
    \/ rbSliceChrono
    \/ rbLen

SpecRB == InitRB /\ [][NextRB]_vars

\* ------------------------------------------------------------------------
\* scrapeStream alone, over one line source
\* ------------------------------------------------------------------------

\* no "santad: " marker: only the timestamp is extracted
LineO == "[t6] other: decision=DENY"

\* a field named timestamp next to the bracketed timestamp
LineT == "[t7] santad: decision=ALLOW|timestamp=x|path=/t"

LinePool == {LineA1, LineA2, LineD1, LineM, LineO, LineT}

\* line sources of 0 .. n lines
SeqsUpTo(S, n) == UNION {[1..k -> S] : k \in 0..n}

StreamPool ==
    {Segment(k, ls) : k \in {"ok", "readerr"}, ls \in SeqsUpTo(LinePool, MaxLines)}

InitStream ==
    /\ scanner \in {newScanner(logPath, seg) : seg \in StreamPool}
    /\ decision \in {DecisionAllowed, DecisionDenied}
    /\ maxEntries \in 1..MaxCap
    /\ rb = newRingBuffer(maxEntries)
    /\ ctxDone \in BOOLEAN
    /\ cancelAt = IF ctxDone
                  THEN [pc |-> "start", opened |-> 0, unread |-> Len(scanner.lines)]
                  ELSE NotCancelled
    /\ pc = "scan"
    /\ fs = [arch |-> [n \in 0..(MaxArch - 1) |-> Segment("missing", <<>>)],
             cur |-> Segment("missing", <<>>)]
    /\ i = 0
    /\ maxIdx = -1
    /\ err = "nil"
    /\ ret = NoRet
    /\ out = NoOut
    /\ probed = <<>>
    /\ opened = <<>>
    /\ eofSeen = {}
    /\ addedFrom = <<>>
    /\ exParts = NoParts
    /\ exLine = ""
    /\ exValues = EmptyMap
    /\ exEntry = ZeroEntry
    /\ lenRead = -1
    /\ held = NoHeld
    /\ heldAtCall = <<>>
    /\ lastOp = "none"
    /\ typeInt = 0
    /\ ruleType = NoRuleType
    /\ calls = NoCalls
    /\ heap = NoHeap
    /\ history = <<>>
    /\ rotated = 0

NextStream ==
    \/ scrapeStream
    \/ cancel

SpecStream == InitStream /\ [][NextStream]_vars


\* ------------------------------------------------------------------------
\* extractValues alone, over lines built from pieces, and the LogEntry
\* construction of scrapeStream from the map it returns
\* ------------------------------------------------------------------------

\* largest number of "|"-separated segments of a generated line
MaxSegs == 2

\* a segment of a line: the text before the first "=", whether there is a
\* "=", and the text after it, made of a lead (whitespace, then quote
\* characters), a core that neither starts nor ends with a quote character,
\* and a trail (quote characters, then whitespace)
Seg(k, eq, lead, core, trail) ==
    [k |-> k, eq |-> eq, v |-> lead \o core \o trail, core |-> core]

SegPool ==
    {Seg("path", TRUE, "", "/a", ""),
     Seg(" Path ", TRUE, VerticalTab \o "\"", " /b c", "\" "),
     Seg("timestamp", TRUE, "", "x", ""),
     Seg("reason", TRUE, "'\"", "c", "\"'"),
     Seg("sha256", TRUE, "", "d", "'"),
     Seg("novalue", FALSE, "", "", ""),
     Seg("", TRUE, "", "e", ""),
     Seg("REASON", TRUE, "\"", "", "\""),
     Seg("args", TRUE, "'", "a=b's", "'"),
     Seg(" ", FALSE, "", "", ""),
     Seg("sha256", TRUE, " ", "", "")}

\* the text in front of the marker
PrePool == {"", "[t1] ", "[t1] [t2] ", "[] "}

MarkerPool == {kLogEntryPreface, "other: ", ""}

segText(sg) == IF sg.eq THEN sg.k \o "=" \o sg.v ELSE sg.k

RECURSIVE joinSegs(_)
joinSegs(segs) ==
    IF segs = <<>> THEN ""
    ELSE IF Len(segs) = 1 THEN segText(segs[1])
    ELSE segText(segs[1]) \o "|" \o joinSegs(Tail(segs))

\* the pieces T, R, S, P of a round-trip line: non-empty, without bracket,
\* pipe, quote, leading or trailing whitespace
TPool == {"t1", "2024-01-15 10:30", "santad: timestamp=q"}

RPool == {"CERT", "a=b"}

SPool == {"ab", "AB 12"}

PPool == {"/usr/bin/x", "/My App.app"}

roundTripLine(T, R, S, P) ==
    "[" \o T \o "] santad: decision=ALLOW|reason=" \o R \o "|sha256=" \o S
        \o "|path=" \o P

InitExtract ==
    /\ \/ \E pre \in PrePool, mk \in MarkerPool, segs \in SeqsUpTo(SegPool, MaxSegs) :
             /\ exParts = [NoParts EXCEPT !.kind = "pieces", !.pre = pre,
                                          !.marker = mk, !.segs = segs]
             /\ exLine = pre \o mk \o joinSegs(segs)
       \/ \E T \in TPool, R \in RPool, S \in SPool, P \in PPool :
             /\ exParts = [NoParts EXCEPT !.kind = "roundtrip", !.T = T, !.R = R,
                                          !.S = S, !.P = P]
             /\ exLine = roundTripLine(T, R, S, P)
    /\ exValues = EmptyMap
    /\ exEntry = ZeroEntry
    /\ pc = "extract"
    /\ fs = [arch |-> [n \in 0..(MaxArch - 1) |-> Segment("missing", <<>>)],
             cur |-> Segment("missing", <<>>)]
    /\ maxEntries = 1
    /\ ctxDone = FALSE
    /\ decision = DecisionAllowed
    /\ i = 0
    /\ maxIdx = -1
    /\ rb = newRingBuffer(maxEntries)
    /\ scanner = NoScanner
    /\ err = "nil"
    /\ ret = NoRet
    /\ out = NoOut
    /\ probed = <<>>
    /\ opened = <<>>
    /\ eofSeen = {}
    /\ addedFrom = <<>>
    /\ cancelAt = NotCancelled
    /\ lenRead = -1
    /\ held = NoHeld
    /\ heldAtCall = <<>>
    /\ lastOp = "none"
    /\ typeInt = 0
    /\ ruleType = NoRuleType
    /\ calls = NoCalls
    /\ heap = NoHeap
    /\ history = <<>>
    /\ rotated = 0

\* values := extractValues(line) (santa_log.go:82)
callExtractValues ==
    /\ pc = "extract"
    /\ exValues' = extractValues(exLine)
    /\ pc' = "extracted"
    /\ UNCHANGED <<exParts, exLine, exEntry>>
    /\ UNCHANGED scrapeVars
    /\ UNCHANGED rbReadVars
    /\ UNCHANGED auxVars

\* if values["timestamp"] == "" { continue } (santa_log.go:83-85): TRUE when
\* the line is skipped
noTimestamp(values) == MapGet(values, "timestamp") = ""

\* the continue of a line whose map holds no timestamp (santa_log.go:83-85):
\* no LogEntry is built
skipLine ==
    /\ pc = "extracted"
    /\ noTimestamp(exValues)
    /\ pc' = "skipped"
    /\ UNCHANGED exVars
    /\ UNCHANGED scrapeVars
    /\ UNCHANGED rbReadVars
    /\ UNCHANGED auxVars

\* rb.Add(LogEntry{Timestamp: values["timestamp"], ...}) (santa_log.go:87-92):
\* the entry is built for a map that holds a timestamp and added to the ring
\* buffer
makeLogEntry ==
    /\ pc = "extracted"
    /\ ~noTimestamp(exValues)
    /\ exEntry' = entryOf(exValues)
    /\ rb' = Add(rb, entryOf(exValues))
    /\ addedFrom' = Append(addedFrom, [path |-> scanner.path,
                                       entry |-> entryOf(exValues)])
    /\ pc' = "built"
    /\ UNCHANGED <<exParts, exLine, exValues>>
    /\ UNCHANGED <<fs, maxEntries, ctxDone, decision, i, maxIdx, scanner, err,
                   ret, out, probed, opened, eofSeen, cancelAt>>
    /\ UNCHANGED rbReadVars
    /\ UNCHANGED auxVars

NextExtract ==
    \/ callExtractValues
    \/ skipLine
    \/ makeLogEntry

SpecExtract == InitExtract /\ [][NextExtract]_vars


\* ------------------------------------------------------------------------
\* santa.go / santa_rules.go: the rule type of a stored integer
\* ------------------------------------------------------------------------

RuleTypeBinary == 0

RuleTypeCertificate == 1

RuleTypeTeamID == 2

RuleTypeSigningID == 3

RuleTypeCDHash == 4

RuleTypeUnknown == 5

\* largest integer given to getRuleTypeFromInt
MaxRuleInt == 6000

getRuleTypeFromInt(n) ==
    CASE n = 1000 -> RuleTypeBinary
      [] n = 2000 -> RuleTypeCertificate
      [] n = 3000 -> RuleTypeTeamID
      [] n = 4000 -> RuleTypeSigningID
      [] n = 5000 -> RuleTypeCDHash
      [] OTHER -> RuleTypeUnknown

\* the variables of a scrape and of the other calls are not used
idleScrape ==
    /\ fs = [arch |-> [n \in 0..(MaxArch - 1) |-> Segment("missing", <<>>)],
             cur |-> Segment("missing", <<>>)]
    /\ maxEntries = 1
    /\ ctxDone = FALSE
    /\ decision = DecisionAllowed
    /\ i = 0
    /\ maxIdx = -1
    /\ rb = newRingBuffer(maxEntries)
    /\ scanner = NoScanner
    /\ err = "nil"
    /\ ret = NoRet
    /\ out = NoOut
    /\ probed = <<>>
    /\ opened = <<>>
    /\ eofSeen = {}
    /\ addedFrom = <<>>
    /\ cancelAt = NotCancelled
    /\ exParts = NoParts
    /\ exLine = ""
    /\ exValues = EmptyMap
    /\ exEntry = ZeroEntry
    /\ lenRead = -1
    /\ held = NoHeld
    /\ heldAtCall = <<>>
    /\ lastOp = "none"

InitRules ==
    /\ typeInt \in -1..MaxRuleInt
    /\ ruleType = NoRuleType
    /\ pc = "rule"
    /\ idleScrape
    /\ calls = NoCalls
    /\ heap = NoHeap
    /\ history = <<>>
    /\ rotated = 0

\* rule.Type = getRuleTypeFromInt(int(typeInt.Int64)) (santa_rules.go:85)
callGetRuleTypeFromInt ==
    /\ pc = "rule"
    /\ ruleType' = getRuleTypeFromInt(typeInt)
    /\ pc' = "ruled"
    /\ UNCHANGED <<typeInt, calls, heap, history, rotated>>
    /\ UNCHANGED scrapeVars
    /\ UNCHANGED exVars
    /\ UNCHANGED rbReadVars

NextRules == callGetRuleTypeFromInt

SpecRules == InitRules /\ [][NextRules]_vars


\* ------------------------------------------------------------------------
\* One query while the log is rotated
\* ------------------------------------------------------------------------

\* largest number of rotations during one query
MaxRot == 1

\* the n-th line of the logical log, n = 0 the oldest
rotLine(n) ==
    "[r" \o SubSeq("0123456789", n + 1, n + 1) \o "] santad: decision=ALLOW|path=/r"

\* a log of k archives and the current log, one line each, oldest line in
\* archive k-1; the archive indices above leave room for the rotations
rotFs(k) ==
    [arch |-> [n \in 0..(MaxArch + MaxRot - 1) |->
                  IF n < k THEN Segment("ok", <<rotLine(k - 1 - n)>>)
                  ELSE Segment("missing", <<>>)],
     cur |-> Segment("ok", <<rotLine(k)>>)]

InitRot ==
    /\ \E k \in 0..MaxArch :
          /\ fs = rotFs(k)
          /\ history = [n \in 1..(k + 1) |-> rotLine(n - 1)]
    /\ rotated = 0
    /\ maxEntries \in 1..MaxCap
    /\ ctxDone = FALSE
    /\ pc = "idle"
    /\ decision = DecisionAllowed
    /\ i = 0
    /\ maxIdx = -1
    /\ rb = newRingBuffer(0)
    /\ scanner = NoScanner
    /\ err = "nil"
    /\ ret = NoRet
    /\ out = NoOut
    /\ probed = <<>>
    /\ opened = <<>>
    /\ eofSeen = {}
    /\ addedFrom = <<>>
    /\ cancelAt = NotCancelled
    /\ exParts = NoParts
    /\ exLine = ""
    /\ exValues = EmptyMap
    /\ exEntry = ZeroEntry
    /\ lenRead = -1
    /\ held = NoHeld
    /\ heldAtCall = <<>>
    /\ lastOp = "none"
    /\ typeInt = 0
    /\ ruleType = NoRuleType
    /\ calls = NoCalls
    /\ heap = NoHeap

\* a log rotation between two steps of the call: the current log becomes
\* archive 0, archive n becomes archive n + 1, a new empty current log is
\* created; a file that is open stays open on what it held
rotate ==
    /\ pc \in {"probe", "archives", "scan", "streamret"}
    /\ rotated < MaxRot
    /\ fs.cur.kind # "missing"
    /\ fs' = [arch |-> [n \in DOMAIN fs.arch |->
                           IF n = 0 THEN fs.cur ELSE fs.arch[n - 1]],
              cur |-> Segment("ok", <<>>)]
    /\ rotated' = rotated + 1
    /\ UNCHANGED <<maxEntries, ctxDone, pc, decision, i, maxIdx, rb, scanner,
                   err, ret, out, probed, opened, eofSeen, addedFrom, cancelAt>>
    /\ UNCHANGED exVars
    /\ UNCHANGED rbReadVars
    /\ UNCHANGED <<typeInt, ruleType, calls, heap, history>>

NextRot ==
    \/ \E t \in {"santa_allowed", "santa_denied"} : generateSanta(t)
    \/ probeArchive
    \/ openSegment
    \/ scrapeStream
    \/ segmentReturn
    \/ generateReturn
    \/ rotate

SpecRot == InitRot /\ [][NextRot]_vars


\* ------------------------------------------------------------------------
\* Two scrapeSantaLogFromBase calls at the same time, over the same files
\* ------------------------------------------------------------------------

CallIds == {1, 2}

\* an ALLOW line whose args field holds the text of the DENY marker
LineB == "[t8] santad: decision=ALLOW|path=/x|args=decision=DENY"

\* the files the two calls read: archive 0 and the current log
TwoArchPool ==
    {Segment("missing", <<>>), Segment("badgzip", <<>>),
     Segment("ok", <<LineA1, LineD1>>)}

TwoCurPool ==
    {Segment("missing", <<>>), Segment("ok", <<LineA2>>),
     Segment("ok", <<LineD2, LineB>>), Segment("readerr", <<LineA3>>)}

\* the address of the ring buffer a call of a buffer sharing package would get
allocRb_Shared(c) == 1

\* rb := newRingBuffer(maxEntries) (santa_log.go:139): the address of the
\* buffer allocated by call c, a new one for each call
allocRb(c) == c

\* the locals of a call that has not started
NewCall(d) ==
    [pc |-> "start", decision |-> d, ctxDone |-> FALSE, i |-> 0,
     maxIdx |-> -1, rbAddr |-> 0,
     scanner |-> NoScanner, err |-> "nil", ret |-> NoRet, added |-> <<>>]

InitTwo ==
    /\ \E a \in TwoArchPool, c \in TwoCurPool :
          fs = [arch |-> [n \in 0..(MaxArch - 1) |->
                             IF n = 0 THEN a ELSE Segment("missing", <<>>)],
                cur |-> c]
    /\ maxEntries \in 1..MaxCap
    /\ calls \in [CallIds -> {NewCall(d) : d \in {DecisionAllowed, DecisionDenied}}]
    /\ heap = [a \in CallIds |-> [rb |-> newRingBuffer(0), readers |-> <<>>]]
    /\ pc = "two"
    /\ ctxDone = FALSE
    /\ decision = DecisionAllowed
    /\ i = 0
    /\ maxIdx = -1
    /\ rb = newRingBuffer(0)
    /\ scanner = NoScanner
    /\ err = "nil"
    /\ ret = NoRet
    /\ out = NoOut
    /\ probed = <<>>
    /\ opened = <<>>
    /\ eofSeen = {}
    /\ addedFrom = <<>>
    /\ cancelAt = NotCancelled
    /\ exParts = NoParts
    /\ exLine = ""
    /\ exValues = EmptyMap
    /\ exEntry = ZeroEntry
    /\ lenRead = -1
    /\ held = NoHeld
    /\ heldAtCall = <<>>
    /\ lastOp = "none"
    /\ typeInt = 0
    /\ ruleType = NoRuleType
    /\ history = <<>>
    /\ rotated = 0

\* what a step of one of the two calls leaves alone
twoFrame ==
    /\ UNCHANGED <<pc, typeInt, ruleType, history, rotated>>
    /\ UNCHANGED scrapeVars
    /\ UNCHANGED exVars
    /\ UNCHANGED rbReadVars

\* rb := newRingBuffer(maxEntries); maxIdx := -1; i := 0 (lines 139-143)
twoStart(c) ==
    /\ calls[c].pc = "start"
    /\ calls' = [calls EXCEPT ![c].pc = "probe", ![c].rbAddr = allocRb(c)]
    /\ heap' = [heap EXCEPT ![allocRb(c)] =
                   [rb |-> newRingBuffer(maxEntries), readers |-> <<>>]]
    /\ twoFrame

\* one iteration of the discovery loop (lines 143-148)
twoProbe(c) ==
    /\ calls[c].pc = "probe"
    /\ calls' = IF statOk(fs, calls[c].i)
                THEN [calls EXCEPT ![c].maxIdx = calls[c].i,
                                   ![c].i = calls[c].i + 1]
                ELSE [calls EXCEPT ![c].i = calls[c].maxIdx,
                                   ![c].pc = "archives"]
    /\ UNCHANGED heap
    /\ twoFrame

\* the open of the next segment (lines 151-153, 159, 99-106, 111-124)
twoOpen(c) ==
    /\ calls[c].pc = "archives"
    /\ LET n   == calls[c].i
           p   == IF archiveLoopCond(n) THEN archivePath(n) ELSE logPath
           seg == IF archiveLoopCond(n) THEN fs.arch[n] ELSE fs.cur
           e   == IF archiveLoopCond(n) THEN openArchiveErr(seg)
                  ELSE openCurrentErr(seg)
       IN  calls' = [calls EXCEPT
                        ![c].scanner = IF e = "nil" THEN newScanner(p, seg)
                                       ELSE [NoScanner EXCEPT !.path = p],
                        ![c].err = e,
                        ![c].pc = IF e = "nil" THEN "scan" ELSE "streamret"]
    /\ UNCHANGED heap
    /\ twoFrame

\* the context of call c is cancelled (deadline or shutdown), at any moment
twoCancel(c) ==
    /\ ~calls[c].ctxDone
    /\ calls' = [calls EXCEPT ![c].ctxDone = TRUE]
    /\ UNCHANGED heap
    /\ twoFrame

\* one iteration of the loop of scrapeStream, or its return (lines 61-95)
twoScan(c) ==
    /\ calls[c].pc = "scan"
    /\ LET sc == calls[c].scanner
       IN  IF sc.pos < Len(sc.lines) /\ ctxSelect(calls[c].ctxDone)
           THEN /\ calls' = [calls EXCEPT ![c].scanner.pos = sc.pos + 1,
                                          ![c].err = ctxErr(calls[c].ctxDone),
                                          ![c].pc = "streamret"]
                /\ UNCHANGED heap
           ELSE IF sc.pos < Len(sc.lines)
           THEN LET line == sc.lines[sc.pos + 1]
                    es   == lineEntries(calls[c].decision, line)
                    a    == calls[c].rbAddr
                IN  /\ calls' = [calls EXCEPT
                          ![c].scanner.pos = sc.pos + 1,
                          ![c].added =
                              IF es = <<>> THEN calls[c].added
                              ELSE Append(calls[c].added,
                                          [path |-> sc.path, k |-> sc.pos + 1,
                                           entry |-> es[1]])]
                    /\ heap' = IF es = <<>> THEN heap
                               ELSE [heap EXCEPT
                                        ![a].rb = Add(heap[a].rb, es[1]),
                                        ![a].readers = Append(heap[a].readers, c)]
           ELSE /\ calls' = [calls EXCEPT ![c].err = scannerErr(sc),
                                          ![c].pc = "streamret"]
                /\ UNCHANGED heap
    /\ twoFrame

\* the orchestrator after a segment's scrape has returned (lines 153-164)
twoSegmentReturn(c) ==
    /\ calls[c].pc = "streamret"
    /\ LET e == calls[c].err
       IN  calls' =
              IF calls[c].scanner.path.gz
              THEN IF archiveFailed(e)
                   THEN [calls EXCEPT ![c].ret = [entries |-> <<>>, err |-> e],
                                      ![c].pc = "return"]
                   ELSE [calls EXCEPT ![c].i = nextArchive(calls[c].i),
                                      ![c].pc = "archives"]
              ELSE [calls EXCEPT
                      ![c].pc = "return",
                      ![c].ret =
                          IF currentFailed(e) THEN [entries |-> <<>>, err |-> e]
                          ELSE [entries |-> SliceChrono(heap[calls[c].rbAddr].rb),
                                err |-> "nil"]]
    /\ UNCHANGED heap
    /\ twoFrame

NextTwo ==
    \E c \in CallIds :
        \/ twoStart(c)
        \/ twoProbe(c)
        \/ twoOpen(c)
        \/ twoScan(c)
        \/ twoSegmentReturn(c)
        \/ twoCancel(c)

SpecTwo == InitTwo /\ [][NextTwo]_vars


\* ------------------------------------------------------------------------
\* Properties
\* ------------------------------------------------------------------------

Min(a, b) == IF a < b THEN a ELSE b

LastN(s, n) == SubSeq(s, Len(s) - n + 1, Len(s))

Last(s) == s[Len(s)]

\* the largest k such that archives 0..k all exist, -1 if archive 0 is missing
contiguousMax(f) ==
    CHOOSE k \in -1..(MaxArch - 1) :
        /\ \A j \in 0..k : f.arch[j].kind # "missing"
        /\ (k + 1) \in DOMAIN f.arch => f.arch[k + 1].kind = "missing"

\* the lines of archive k, archive k-1, ..., archive 0
RECURSIVE archiveLines(_, _)
archiveLines(f, k) ==
    IF k < 0 THEN <<>> ELSE f.arch[k].lines \o archiveLines(f, k - 1)

logicalLines(f) == archiveLines(f, contiguousMax(f)) \o f.cur.lines

\* the entries of the lines that pass the decision filter and yield a timestamp
RECURSIVE matching(_, _)
matching(d, lines) ==
    IF lines = <<>> THEN <<>>
    ELSE lineEntries(d, Head(lines)) \o matching(d, Tail(lines))

\* archive k, archive k-1, ..., archive 0, then the current log
RECURSIVE expectedOpens(_)
expectedOpens(k) ==
    IF k < 0 THEN <<logPath>> ELSE <<archivePath(k)>> \o expectedOpens(k - 1)

\* age of a segment: 0 for the current log, n+1 for archive n
age(p) == IF p.gz THEN p.idx + 1 ELSE 0

returned == pc \in {"return", "done"}

succeeded == returned /\ ret.err = "nil"

addedEntries == [k \in 1..Len(addedFrom) |-> addedFrom[k].entry]

\* C1: a successful scrape returns exactly the last min(maxEntries, M) of the
\* M matching entries of archive maxIdx, ..., archive 0, current log, in that
\* order, and never more than maxEntries entries.
C1_LastWindow ==
    succeeded =>
        \A all \in {matching(decision, logicalLines(fs))} :
            /\ ret.entries = LastN(all, Min(maxEntries, Len(all)))
            /\ Len(ret.entries) <= maxEntries

\* C1 witness: a scrape over an archive and the current log succeeded, with
\* more matching entries than the buffer holds, from both kinds of segment
C1_Witness ==
    /\ pc = "done"
    /\ ret.err = "nil"
    /\ Len(addedFrom) > maxEntries
    /\ \E a \in 1..Len(addedFrom) : addedFrom[a].path.gz
    /\ \E a \in 1..Len(addedFrom) : ~addedFrom[a].path.gz
    /\ Len(ret.entries) = maxEntries

\* C2: on a buffer of capacity C > 0, after N Add calls Len() is min(N, C)
\* and SliceChrono() is the last min(N, C) entries added, in add order.
C2_LenAndWindow ==
    Len(rb.buf) > 0 =>
        LET n == Min(Len(addedFrom), Len(rb.buf))
        IN  /\ RbLen(rb) = n
            /\ SliceChrono(rb) = LastN(addedEntries, n)

\* C2 witness: a buffer that wrapped around, start in the middle
C2_Witness ==
    /\ pc = "rb"
    /\ Len(rb.buf) > 1
    /\ Len(addedFrom) > Len(rb.buf) + 1
    /\ rb.start # 0
    /\ addedFrom[Len(addedFrom)].entry # addedFrom[Len(addedFrom) - 1].entry

\* C3: a successful scrape has opened archive maxIdx, ..., archive 0, current
\* log, each once; a segment is opened only after every segment opened before
\* it was read to its end; entries are inserted oldest segment first.
C3_SegmentOrder ==
    /\ succeeded => opened = expectedOpens(contiguousMax(fs))
    /\ \A j \in 1..(Len(opened) - 1) : opened[j] \in eofSeen
    /\ \A a, b \in 1..Len(addedFrom) :
          a < b => age(addedFrom[a].path) >= age(addedFrom[b].path)

\* C3 witness: a successful scrape over every archive and the current log,
\* with entries from an archive and from the current log
C3_Witness ==
    /\ pc = "done"
    /\ ret.err = "nil"
    /\ Len(opened) = MaxArch + 1
    /\ \E a, b \in 1..Len(addedFrom) :
          addedFrom[a].path.gz /\ ~addedFrom[b].path.gz
    /\ Len(ret.entries) = Len(addedFrom)

\* C4: discovery probes 0, 1, 2, ... and stops at the first missing archive;
\* maxIdx is the largest k with archives 0..k present; an archive beyond a gap
\* is never opened and contributes no entry.
C4_Discovery ==
    /\ \A j \in 1..Len(probed) : probed[j] = j - 1
    /\ pc \in {"archives", "scan", "streamret", "return", "done"} =>
          /\ maxIdx = contiguousMax(fs)
          /\ Len(probed) = contiguousMax(fs) + 2
    /\ \A j \in 1..Len(opened) : opened[j].gz => opened[j].idx <= contiguousMax(fs)
    /\ \A a \in 1..Len(addedFrom) :
          addedFrom[a].path.gz => addedFrom[a].path.idx <= contiguousMax(fs)

\* C4 witness: archive 0 is missing, archive 1 holds lines, the scrape succeeded
C4_Witness ==
    /\ pc = "done"
    /\ fs.arch[0].kind = "missing"
    /\ fs.arch[1].kind = "ok"
    /\ fs.arch[1].lines # <<>>
    /\ ret.err = "nil"
    /\ maxIdx = -1
    /\ opened = <<logPath>>

badArchive(seg) == seg.kind \in {"noopen", "badgzip", "readerr"}

corruptDiscovered == \E k \in 0..contiguousMax(fs) : badArchive(fs.arch[k])

\* C5: when a discovered archive cannot be opened or decompressed the scrape
\* returns an error and no entries; no segment is opened after an archive
\* that fails.
C5_ArchiveFailureFails ==
    /\ \A j \in 1..(Len(opened) - 1) :
          opened[j].gz => ~badArchive(fs.arch[opened[j].idx])
    /\ (returned /\ corruptDiscovered) => (ret.err # "nil" /\ ret.entries = <<>>)

\* C5 witness: an older archive was scraped and gave entries, a newer archive
\* then failed, and the scrape returned that failure
C5_Witness ==
    /\ pc = "done"
    /\ Len(opened) >= 2
    /\ Last(opened).gz
    /\ Len(addedFrom) > 0
    /\ ret.err \in {ErrOpen, ErrGzip, ErrRead}

\* C6: when the current log cannot be opened the scrape returns an error and
\* no entries, also after archives were scraped.
C6_CurrentOpenFailure ==
    (returned /\ openCurrentErr(fs.cur) # "nil") =>
        (ret.err # "nil" /\ ret.entries = <<>>)

\* C6 witness: the archives were scraped with entries inserted, then opening
\* the current log failed
C6_Witness ==
    /\ pc = "done"
    /\ fs.cur.kind = "missing"
    /\ maxIdx >= 0
    /\ Len(addedFrom) > 0
    /\ Last(opened) = logPath
    /\ ret.err = ErrOpen

\* C7: a query made while the current log is absent returns zero rows and no
\* error.
C7_AbsentLogZeroRows ==
    (pc = "done" /\ fs.cur.kind = "missing") =>
        (out.rows = <<>> /\ out.err = "nil")

\* C7 witness: the query ran up to the open of the absent current log
C7_Witness ==
    /\ pc = "done"
    /\ fs.cur.kind = "missing"
    /\ Last(opened) = logPath
    /\ ret.err = ErrOpen
    /\ out = NoOut

\* C8 as stated: a query made while a discovered archive is corrupt returns
\* a query-level error.
C8_Original ==
    (pc = "done" /\ corruptDiscovered) => out.err # "nil"

\* C8 amended: a query made while a discovered archive is corrupt returns zero
\* rows and no error (the callback turns the scrape's error into an empty
\* result).
C8_CorruptArchiveZeroRows ==
    (pc = "done" /\ corruptDiscovered) => (out.rows = <<>> /\ out.err = "nil")

\* C8 witness: the scrape failed on a corrupt archive after entries had been
\* inserted, and the query returned
C8_Witness ==
    /\ pc = "done"
    /\ corruptDiscovered
    /\ ret.err \in {ErrGzip, ErrRead}
    /\ Last(opened).gz
    /\ Len(addedFrom) > 0
    /\ out.rows = <<>>

cancelledAtStart == cancelAt.pc = "start"

\* C9 as stated: whatever the number of lines of the source, a scrapeStream
\* started with the signal set returns the cancelled outcome.
C9_Original ==
    (pc = "streamret" /\ cancelledAtStart) => err = ErrCanceled

\* C9 amended: over a source that yields at least one line, a scrapeStream
\* started with the signal set returns the cancelled outcome, with nothing
\* inserted in the buffer.
C9_CancelledBeforeFirstLine ==
    (pc = "streamret" /\ cancelledAtStart /\ Len(scanner.lines) > 0) =>
        /\ err = ErrCanceled
        /\ rb = newRingBuffer(maxEntries)
        /\ addedFrom = <<>>

\* C9 witness: the signal was set at the start, the first line would have
\* been inserted, and scrapeStream returned
C9_Witness ==
    /\ pc = "streamret"
    /\ cancelledAtStart
    /\ Len(scanner.lines) > 1
    /\ inserts(decision, scanner.lines[1])
    /\ err = ErrCanceled

\* C10 as stated: cancellation requested while a segment is being scraped
\* opens no further segment and returns the cancellation outcome, no entries.
C10_Original ==
    (pc = "done" /\ cancelAt.pc = "scan") =>
        /\ ret = [entries |-> <<>>, err |-> ErrCanceled]
        /\ Len(opened) = cancelAt.opened

\* C10 amended: cancellation requested while the segment being scraped still
\* has an unread line opens no further segment and returns the cancellation
\* outcome with no entries; a success is never cut short: it is returned only
\* after every segment, the current log included, was read to its end.
C10_CancelWithUnreadLine ==
    /\ (cancelAt.pc = "scan" /\ cancelAt.unread > 0) =>
          /\ Len(opened) = cancelAt.opened
          /\ returned => ret = [entries |-> <<>>, err |-> ErrCanceled]
    /\ succeeded =>
          /\ \A j \in 1..Len(opened) : opened[j] \in eofSeen
          /\ Last(opened) = logPath
          /\ Len(ret.entries) = Min(maxEntries, Len(addedFrom))

\* C10 witness: cancelled in the middle of an archive after an entry was
\* inserted, with the current log still to come
C10_Witness ==
    /\ pc = "done"
    /\ cancelAt.pc = "scan"
    /\ cancelAt.unread > 0
    /\ cancelAt.opened <= maxIdx + 1
    /\ Len(addedFrom) > 0
    /\ ret.err = ErrCanceled

\* the segment behind a path of the file system
segmentAt(f, p) == IF p.gz THEN f.arch[p.idx] ELSE f.cur

\* the error of opening the segment behind p, "nil" when it opens
openErrAt(f, p) ==
    IF p.gz THEN openArchiveErr(segmentAt(f, p)) ELSE openCurrentErr(segmentAt(f, p))

\* C11: the scrape returns the cancellation outcome only if the cancellation
\* signal was set, and an open, decompress or read failure of a segment is
\* returned as an error that is none of success and the cancellation outcome:
\* a failed scrape returns either the context's error, or the open error of
\* the last segment opened, or the read error of the last segment opened.
C11_CancelApartFromFailure ==
    returned =>
        /\ ret.err = ErrCanceled => ctxDone
        /\ openErrAt(fs, Last(opened)) # "nil" =>
              /\ ret.err = openErrAt(fs, Last(opened))
              /\ ret.err \notin {"nil", ErrCanceled}
        /\ ret.err \notin {"nil", ErrCanceled} =>
              \/ ret.err = openErrAt(fs, Last(opened))
              \/ /\ ret.err = ErrRead
                 /\ segmentAt(fs, Last(opened)).kind = "readerr"
                 /\ scanner.pos = Len(scanner.lines)
        /\ (ret.err = "nil" /\ ~ctxDone) =>
              segmentAt(fs, Last(opened)).kind = "ok"

\* C11 witness: the signal was set while an archive was scraped, the scrape
\* went on to a later segment whose open failed, and returned the open
\* failure, not the cancellation outcome
C11_Witness ==
    /\ pc = "done"
    /\ ctxDone
    /\ cancelAt.pc = "scan"
    /\ Len(opened) > cancelAt.opened
    /\ ret.err \in {ErrOpen, ErrGzip}

\* the marker of the requested decision
markerOf(d) == IF d = DecisionAllowed THEN "decision=ALLOW" ELSE "decision=DENY"

\* the lines scrapeStream has taken through its filter so far: every line
\* read, but not the line on which the signal was seen
linesTaken ==
    IF ctxDone THEN SubSeq(scanner.lines, 1, Len(scanner.lines) - cancelAt.unread)
    ELSE SubSeq(scanner.lines, 1, scanner.pos)

\* the lines among ls that contain the text m, in order
RECURSIVE linesWith(_, _)
linesWith(m, ls) ==
    IF ls = <<>> THEN <<>>
    ELSE (IF Contains(Head(ls), m) THEN <<Head(ls)>> ELSE <<>>) \o linesWith(m, Tail(ls))

\* C12: scrapeStream inserts an entry for a line only if the line contains
\* the marker of the requested decision; the entries inserted follow the
\* order of their lines in the source; the buffer keeps the last of them in
\* that order; a Denied scrape over lines without "decision=DENY" leaves the
\* buffer empty.
C12_DecisionFilter ==
    LET marked == linesWith(markerOf(decision), linesTaken)
    IN  /\ Len(addedFrom) <= Len(marked)
        /\ \E f \in [1..Len(addedFrom) -> 1..Len(marked)] :
              /\ \A a, b \in 1..Len(addedFrom) : a < b => f[a] < f[b]
              /\ \A a \in 1..Len(addedFrom) :
                    addedFrom[a].entry = entryOf(extractValues(marked[f[a]]))
        /\ SliceChrono(rb) = LastN(addedEntries, Min(maxEntries, Len(addedFrom)))
        /\ (decision = DecisionDenied
            /\ \A k \in 1..Len(scanner.lines) :
                  ~Contains(scanner.lines[k], "decision=DENY"))
           => SliceChrono(rb) = <<>>

\* C12 witness: a Denied scrape read an ALLOW line, then a DENY line, to the
\* end of the source, and inserted the entry of the DENY line only
C12_Witness ==
    /\ pc = "streamret"
    /\ err = "nil"
    /\ decision = DecisionDenied
    /\ scanner.lines = <<LineA1, LineD1>>
    /\ SliceChrono(rb) = <<entryOf(extractValues(LineD1))>>

\* a line that passes the filter of decision d and yields no timestamp
malformed(d, line) ==
    Contains(line, markerOf(d)) /\ "timestamp" \notin DOMAIN extractValues(line)

\* the lines ls without the malformed ones
RECURSIVE wellFormed(_, _)
wellFormed(d, ls) ==
    IF ls = <<>> THEN <<>>
    ELSE (IF malformed(d, Head(ls)) THEN <<>> ELSE <<Head(ls)>>)
         \o wellFormed(d, Tail(ls))

\* the ring buffer after the loop body has handled the lines ls, from r
RECURSIVE scrapeLines(_, _, _)
scrapeLines(d, ls, r) ==
    IF ls = <<>> THEN r ELSE scrapeLines(d, Tail(ls), scrapeLine(d, Head(ls), r))

\* C13: a line that passes the decision filter but yields no timestamp
\* inserts nothing and does not make scrapeStream fail: the buffer is the
\* one a scrape of the same lines without the malformed ones gives, and
\* scrapeStream returns a failure only for a read error of the source or
\* for the cancellation signal.
C13_MalformedDropped ==
    /\ rb = scrapeLines(decision, wellFormed(decision, linesTaken),
                        newRingBuffer(maxEntries))
    /\ \A a \in 1..Len(addedFrom) : addedFrom[a].entry.Timestamp # ""
    /\ pc = "streamret" =>
          err = IF ctxDone /\ cancelAt.unread > 0 THEN ErrCanceled
                ELSE IF scanner.readErr THEN ErrRead
                ELSE "nil"

\* C13 witness: an Allowed scrape read an ALLOW line without timestamp, then
\* a well-formed ALLOW line, and returned success with the second line's
\* entry only
C13_Witness ==
    /\ pc = "streamret"
    /\ err = "nil"
    /\ decision = DecisionAllowed
    /\ scanner.lines = <<LineM, LineA1>>
    /\ malformed(decision, LineM)
    /\ SliceChrono(rb) = <<entryOf(extractValues(LineA1))>>

\* scanner.Scan() has returned false: every line was read and the loop was
\* not left on the cancellation signal
scanEnded ==
    scanner.pos = Len(scanner.lines) /\ ~(ctxDone /\ cancelAt.unread > 0)

\* C14: when the line source reports a read error, scrapeStream returns that
\* error, which is neither success nor the cancellation outcome; when the
\* source ends cleanly it returns success; it returns a read error or
\* success in no other case.
C14_ReadErrorPropagated ==
    pc = "streamret" =>
        /\ (scanEnded /\ scanner.readErr) =>
              (err = ErrRead /\ err \notin {"nil", ErrCanceled})
        /\ (scanEnded /\ ~scanner.readErr) => err = "nil"
        /\ err \in {"nil", ErrRead} => scanEnded

\* C14 witness: the source failed after two lines, of which one was
\* inserted, and scrapeStream returned the read error
C14_Witness ==
    /\ pc = "streamret"
    /\ scanner.readErr
    /\ scanner.pos = 2
    /\ Len(addedFrom) = 1
    /\ err = ErrRead

extracted == pc \in {"extracted", "skipped", "built"}

\* timestampRegex finds a bracketed substring in the line: a "[", one or more
\* characters other than "]", and a "]" (santa_log.go:21, 28)
hasBracketed(line) == timestampRegex(line).found

\* C15 as stated: for a line without bracketed substring the map returned by
\* extractValues has no timestamp key, whatever the key=value segments after
\* the marker contain.
C15_NoBracketNoTimestamp ==
    (extracted /\ ~hasBracketed(exLine)) => "timestamp" \notin DOMAIN exValues

\* C16 as stated: every LogEntry scrapeStream inserts has as timestamp the
\* text inside the first bracketed substring of its line, and as application,
\* reason and sha256 the line's path, reason and sha256 fields.
C16_EntryFromLine ==
    \A a \in 1..Len(addedFrom) :
        \E k \in 1..Len(linesTaken) :
            LET line == linesTaken[k]
            IN  addedFrom[a].entry =
                    LogEntry(timestampRegex(line).group,
                             MapGet(extractValues(line), "path"),
                             MapGet(extractValues(line), "reason"),
                             MapGet(extractValues(line), "sha256"))

\* the line was built from pieces and holds the marker "santad: "
markedPieces == exParts.kind = "pieces" /\ exParts.marker = kLogEntryPreface

\* the key of a segment: its text before the first "=", lower-cased and
\* stripped of surrounding whitespace
keyOf(sg) == ToLower(TrimSpace(sg.k))

\* the segment stores a pair: it has a "=", a key and a core
effective(sg) == sg.eq /\ keyOf(sg) # "" /\ sg.core # ""

\* segment j is the last effective segment of segs with its key
lastEffective(segs, j) ==
    /\ effective(segs[j])
    /\ \A n \in (j + 1)..Len(segs) :
          effective(segs[n]) => keyOf(segs[n]) # keyOf(segs[j])

\* C17 as stated: the value stored for a key=value segment is the segment's
\* value with surrounding whitespace removed and then one layer of
\* surrounding matching quote characters removed, other quotes kept.
C17_OneQuoteLayer ==
    (extracted /\ markedPieces) =>
        \A j \in 1..Len(exParts.segs) :
            LET sg == exParts.segs[j]
                t  == TrimSpace(sg.v)
                u  == IF /\ Len(t) >= 2
                         /\ CharAt(t, 1) \in {"\"", "'"}
                         /\ CharAt(t, Len(t)) = CharAt(t, 1)
                      THEN SubSeq(t, 2, Len(t) - 1)
                      ELSE t
            IN  lastEffective(exParts.segs, j)
                    => /\ keyOf(sg) \in DOMAIN exValues
                       /\ exValues[keyOf(sg)] = u

\* C17 amended: the value stored for a key=value segment is the segment's
\* value with surrounding whitespace removed and then every leading and
\* every trailing quote character removed (" or ', any number, matching or
\* not); whitespace and quote characters inside are kept.
C17_QuotesTrimmed ==
    (extracted /\ markedPieces) =>
        \A j \in 1..Len(exParts.segs) :
            LET sg == exParts.segs[j]
            IN  lastEffective(exParts.segs, j)
                    => /\ keyOf(sg) \in DOMAIN exValues
                       /\ exValues[keyOf(sg)] = sg.core

\* C17 witness: a value in two layers of quotes was stored without both, and
\* a value with one unmatched quote without it
C17_Witness ==
    /\ extracted
    /\ exLine = "santad: reason='\"c\"'|sha256=d'"
    /\ exValues = [reason |-> "c", sha256 |-> "d"]

\* the key the bracket timestamp stores, by the text in front of the marker
bracketKeys == IF exParts.pre \in {"[t1] ", "[t1] [t2] "} THEN {"timestamp"} ELSE {}

\* C18: each key that comes from a key=value segment is the segment's text
\* before its first "=", lower-cased and stripped of surrounding whitespace;
\* a segment without "=" adds no key; a segment whose key or value is empty
\* after trimming adds no key: the keys of the map are the timestamp of the
\* brackets and the keys of the segments that have a "=", a key and a value.
C18_Keys ==
    (extracted /\ markedPieces) =>
        DOMAIN exValues =
            bracketKeys \cup {keyOf(exParts.segs[j]) :
                                 j \in {n \in 1..Len(exParts.segs) :
                                           effective(exParts.segs[n])}}

\* C18 witness: an upper-case key between spaces was stored lower-cased and
\* trimmed, next to a segment without "=" that stored nothing
C18_Witness ==
    /\ extracted
    /\ markedPieces
    /\ exParts.segs = <<Seg(" Path ", TRUE, VerticalTab \o "\"", " /b c", "\" "),
                        Seg("novalue", FALSE, "", "", "")>>
    /\ exParts.pre = ""
    /\ DOMAIN exValues = {"path"}

\* C19: when the line does not hold the marker "santad: ", the only possible
\* key of the map is timestamp, whatever key=value pairs the line holds, and
\* the map of the empty line is empty.
C19_NoMarkerOnlyTimestamp ==
    extracted =>
        /\ ~Contains(exLine, kLogEntryPreface) =>
              /\ DOMAIN exValues \subseteq {"timestamp"}
              /\ exParts.kind = "pieces" => DOMAIN exValues = bracketKeys
        /\ exLine = "" => exValues = EmptyMap

\* C19 witness: a line with brackets and key=value pairs behind another
\* marker gave the timestamp only
C19_Witness ==
    /\ extracted
    /\ exLine = "[t1] other: path=/a|timestamp=x"
    /\ exValues = [timestamp |-> "t1"]

\* C20 as stated: the line "[T] santad: decision=ALLOW|reason=R|sha256=S|path=P"
\* passed through extractValues and the LogEntry construction yields
\* timestamp = T, reason = R, sha256 = S, application = P.
C20_RoundTrip ==
    (pc = "built" /\ exParts.kind = "roundtrip") =>
        exEntry = LogEntry(exParts.T, exParts.P, exParts.R, exParts.S)

\* C21: on a ring buffer of capacity 0 every Add is a no-op that computes no
\* index: after any sequence of Add calls the buffer is as newRingBuffer(0)
\* left it, Len() is 0 and SliceChrono() is empty.
C21_ZeroCapacity ==
    Len(rb.buf) = 0 =>
        /\ rb = newRingBuffer(0)
        /\ RbLen(rb) = 0
        /\ SliceChrono(rb) = <<>>
        /\ lenRead \in {-1, 0}
        /\ heldAtCall = <<>>

\* C21 witness: a buffer of capacity 0 after several Add calls, read by Len
\* and by SliceChrono
C21_Witness ==
    /\ pc = "rb"
    /\ Len(rb.buf) = 0
    /\ Len(addedFrom) >= 2
    /\ lenRead = 0
    /\ lastOp = "SliceChrono"

\* C22: SliceChrono and Len leave buf, start and size unchanged, and a
\* SliceChrono call right after a SliceChrono call returns the same sequence.
C22_PureReads ==
    [][(lastOp' \in {"Len", "SliceChrono"} /\ addedFrom' = addedFrom) =>
          /\ rb' = rb
          /\ (lastOp = "SliceChrono" /\ lastOp' = "SliceChrono")
                => heldAtCall' = heldAtCall]_vars

\* C22 witness: a wrapped, full buffer was read by Len, then by SliceChrono
C22_Witness ==
    /\ pc = "rb"
    /\ lastOp = "SliceChrono"
    /\ Len(rb.buf) > 1
    /\ rb.start # 0
    /\ lenRead = Len(rb.buf)
    /\ Len(heldAtCall) = Len(rb.buf)
    /\ heldAtCall = SliceChrono(rb)

\* C23: the sequence SliceChrono returned is a copy: what its holder reads
\* in it stays what it was at the call, whatever is added afterwards.
C23_FreshCopy ==
    sliceContents(held, rb) = heldAtCall

\* C23 witness: a full buffer was read, then an Add overwrote a slot
C23_Witness ==
    /\ pc = "rb"
    /\ lastOp = "Add"
    /\ Len(rb.buf) > 0
    /\ Len(heldAtCall) = Len(rb.buf)
    /\ SliceChrono(rb) # heldAtCall
    /\ \E k \in 1..Len(rb.buf) : rb.buf[k] \notin {heldAtCall[n] : n \in 1..Len(heldAtCall)}

\* the bounds of start and size in a buffer of capacity C > 0
rbInBounds(r) ==
    /\ 0 <= r.size /\ r.size <= Len(r.buf)
    /\ 0 <= r.start /\ r.start < Len(r.buf)
    /\ r.size < Len(r.buf) => r.start = 0

\* r2 is r with slot w (0-based) set to e and nothing else changed in buf
onlySlotWritten(r, r2, w, e) ==
    /\ Len(r2.buf) = Len(r.buf)
    /\ r2.buf[w + 1] = e
    /\ \A k \in 1..Len(r.buf) : k # w + 1 => r2.buf[k] = r.buf[k]

\* C30: in a buffer of capacity C > 0, 0 <= size <= C and 0 <= start < C
\* hold in every state, start is 0 whenever size < C, size never decreases,
\* an Add on a buffer that is not full writes slot (start+size) mod C only
\* and leaves start unchanged, and an Add on a full buffer overwrites the
\* slot at start only, advances start by one modulo C and leaves size
\* unchanged.
C30_RingInvariants ==
    [][Len(rb.buf) > 0 =>
          /\ rbInBounds(rb)
          /\ rbInBounds(rb')
          /\ rb'.size >= rb.size
          /\ addedFrom' # addedFrom =>
                LET e == Last(addedFrom').entry
                    C == Len(rb.buf)
                IN  IF rb.size < C
                    THEN /\ onlySlotWritten(rb, rb', (rb.start + rb.size) % C, e)
                         /\ rb'.start = rb.start
                         /\ rb'.size = rb.size + 1
                    ELSE /\ onlySlotWritten(rb, rb', rb.start, e)
                         /\ rb'.start = (rb.start + 1) % C
                         /\ rb'.size = rb.size]_vars

\* C30 witness: a buffer of capacity above 1 was filled and overwritten all
\* around, so that start is back at 0
C30_Witness ==
    /\ pc = "rb"
    /\ lastOp = "Add"
    /\ Len(rb.buf) > 1
    /\ rb.size = Len(rb.buf)
    /\ Len(addedFrom) = 2 * Len(rb.buf)
    /\ rb.start = 0

\* the rule type the test and the README give for a stored integer
documentedRuleType(n) ==
    CASE n = 500 -> RuleTypeCDHash
      [] n = 1000 -> RuleTypeBinary
      [] n = 2000 -> RuleTypeSigningID
      [] n = 3000 -> RuleTypeCertificate
      [] n = 4000 -> RuleTypeTeamID
      [] OTHER -> RuleTypeUnknown

\* C25 as stated: getRuleTypeFromInt maps 500, 1000, 2000, 3000, 4000 to
\* CDHash, Binary, SigningID, Certificate, TeamID and every other integer to
\* Unknown.
C25_RuleTypeMapping ==
    pc = "ruled" => ruleType = documentedRuleType(typeInt)

\* C26: scrapeStream checks the cancellation signal for each line before it
\* filters, extracts or inserts it: when the signal is set as a line is
\* read, that step inserts nothing, leaves the buffer as it was and returns
\* the cancelled outcome, and nothing is inserted after scrapeStream has
\* returned.
C26_CancelCheckedFirst ==
    [][/\ (pc = "scan" /\ ctxDone /\ scanner.pos < Len(scanner.lines)) =>
             /\ rb' = rb
             /\ addedFrom' = addedFrom
             /\ pc' = "streamret"
             /\ err' = ErrCanceled
       /\ pc = "streamret" =>
             /\ rb' = rb
             /\ addedFrom' = addedFrom
             /\ err' = err]_vars

\* C26 witness: a line was inserted, the signal was set, and the next line,
\* which would have been inserted too, was read and left out
C26_Witness ==
    /\ pc = "streamret"
    /\ err = ErrCanceled
    /\ cancelAt.pc = "scan"
    /\ scanner.pos = 2
    /\ inserts(decision, scanner.lines[1])
    /\ inserts(decision, scanner.lines[2])
    /\ SliceChrono(rb) = lineEntries(decision, scanner.lines[1])

\* the scrape of the query saw the cancellation signal
scrapeCancelled == ret.err = ErrCanceled

\* C28 as stated: when the cancellation signal fires during a query, the
\* table callback does not report a successful zero-row result.
C28_Original ==
    (pc = "done" /\ scrapeCancelled) => ~(out.rows = <<>> /\ out.err = "nil")

\* C28 amended: when the scrape of a query returns the cancellation outcome,
\* the table callback returns zero rows and no error, as for a log without
\* matching decisions; the callback never returns an error, and it returns
\* the rows of the scrape when the scrape succeeded.
C28_CancelledZeroRows ==
    pc = "done" =>
        /\ out.err = "nil"
        /\ scrapeCancelled => out.rows = <<>>
        /\ ret.err = "nil" =>
              out.rows = [k \in 1..Len(ret.entries) |-> rowOf(ret.entries[k])]

\* C28 witness: the query was cancelled after entries had been inserted, and
\* the callback returned what it returns for a log without matching lines
C28_Witness ==
    /\ pc = "done"
    /\ scrapeCancelled
    /\ ctxDone
    /\ Len(addedFrom) > 0
    /\ out = [rows |-> <<>>, err |-> "nil"]

\* sub is a contiguous run of all
contiguousRun(sub, all) ==
    \E a \in 0..(Len(all) - Len(sub)) : sub = SubSeq(all, a + 1, a + Len(sub))

\* C27 as stated: with a log rotation between any two steps of the call, a
\* successful result is a contiguous run of the matching entries of the
\* logical log, in chronological order.
C27_ContiguousUnderRotation ==
    succeeded => contiguousRun(ret.entries, matching(decision, history))

\* the error of scraping the segment behind p on its own, "nil" when it is
\* opened and read to its end
segErrAt(f, p) ==
    IF openErrAt(f, p) # "nil" THEN openErrAt(f, p)
    ELSE IF segmentAt(f, p).kind = "readerr" THEN ErrRead
    ELSE "nil"

\* the error of the first segment of ps that fails, "nil" when none does
RECURSIVE firstErr(_, _)
firstErr(f, ps) ==
    IF ps = <<>> THEN "nil"
    ELSE IF segErrAt(f, Head(ps)) # "nil" THEN segErrAt(f, Head(ps))
    ELSE firstErr(f, Tail(ps))

\* what one scrape for decision d returns over the files f when it runs alone
\* and does not see a cancellation
aloneResult(f, d, n) ==
    LET e == firstErr(f, expectedOpens(contiguousMax(f)))
        m == matching(d, logicalLines(f))
    IN  IF e # "nil" THEN [entries |-> <<>>, err |-> e]
        ELSE [entries |-> LastN(m, Min(n, Len(m))), err |-> "nil"]

\* call c has allocated its ring buffer
started(c) == calls[c].pc # "start"

\* C24: two scrapes that run at the same time share no mutable state: their
\* ring buffers are distinct, no ring buffer ever receives an entry read by
\* the other call, and each call returns what it returns when it runs alone:
\* the result of the files, or the cancellation outcome when its own context
\* was cancelled.
C24_CallsIsolated ==
    /\ \A c \in CallIds :
          started(c) =>
              \A k \in 1..Len(heap[calls[c].rbAddr].readers) :
                  heap[calls[c].rbAddr].readers[k] = c
    /\ (started(1) /\ started(2)) => calls[1].rbAddr # calls[2].rbAddr
    /\ \A c \in CallIds :
          calls[c].pc = "return" =>
              \/ calls[c].ret = aloneResult(fs, calls[c].decision, maxEntries)
              \/ /\ calls[c].ctxDone
                 /\ calls[c].ret = [entries |-> <<>>, err |-> ErrCanceled]

\* C24 witness: call 1 has returned entries while call 2, which put an entry
\* into its ring buffer before call 1 read its last line, is still scanning
C24_Witness ==
    /\ calls[1].pc = "return"
    /\ ~calls[1].ctxDone
    /\ calls[1].ret.err = "nil"
    /\ calls[1].ret.entries # <<>>
    /\ calls[2].pc = "scan"
    /\ calls[2].added # <<>>
    /\ calls[2].scanner.path.gz
    /\ heap[calls[2].rbAddr].readers # <<>>

\* the lines behind the entries a call has returned: the last ones it added
resultLines(c) ==
    {[path |-> calls[c].added[k].path, k |-> calls[c].added[k].k] :
        k \in (Len(calls[c].added) - Len(calls[c].ret.entries) + 1)
              ..Len(calls[c].added)}

\* C29: a scrape for the allowed decision and a scrape for the denied decision
\* of the same files select disjoint sets of lines: no line of the log is
\* behind an entry of both results.
C29_DisjointSelections ==
    (/\ calls[1].pc = "return"
     /\ calls[2].pc = "return"
     /\ calls[1].decision = DecisionAllowed
     /\ calls[2].decision = DecisionDenied
     /\ calls[1].ret.err = "nil"
     /\ calls[2].ret.err = "nil")
        => resultLines(1) \cap resultLines(2) = {}

====
